---- MODULE Spec2Model ----
(***************************************************************************)
(* Pebble database connector: the worker loop of src/agent.py (poll,       *)
(* validate, execute, bound, report, backoff), the query guard of          *)
(* src/query_validator.py, the configuration of src/config.py and the      *)
(* startup of src/main.py.                                                 *)
(*                                                                         *)
(* Text is modelled as a sequence of one-character strings where the code  *)
(* inspects characters (the SQL of a job) and as a TLA+ string where the   *)
(* code only builds and measures it (messages, JSON encodings).            *)
(***************************************************************************)
EXTENDS Integers, Sequences, FiniteSets, TLC

VARIABLES
  pc,                  \* per worker: the await the worker coroutine is suspended at
  consecutive_errors,  \* per worker: agent.py:162
  job,                 \* per worker: the value poll_for_job returned in this cycle (agent.py:167)
  conn,                \* per worker: the database session held by execute_query
  pending,             \* per worker: what execute_query's try block is leaving with
  sleep,               \* per worker: seconds of the asyncio.sleep in progress
  caught,              \* per worker: the exception last bound by an except clause
  executed,            \* per worker: how execute_query ended for the current job
  db_log,              \* per worker: database operations issued for the current job
  sent,                \* per worker: completion request bodies posted for the current job
  fail_streak,         \* per worker: cycles in a row that ended in the loop-level handler
  pure                 \* drawn input and outcome of a part run on its own: bounder, guard, main()

vars == <<pc, consecutive_errors, job, conn, pending, sleep, caught, executed,
          db_log, sent, fail_streak, pure>>

-----------------------------------------------------------------------------
(* Configuration, src/config.py.  The values are the environment's; the    *)
(* model runs with small ones.                                             *)

NUM_WORKERS == 2
POLL_INTERVAL == 5
MAX_RESULT_ROWS == 2
MAX_RESULT_BYTES == 20
BackoffCap == 60

\* Bounds of the model.
MaxErrors == 6      \* consecutive loop-level failures explored
MaxFetchLen == 3    \* longest row sequence drawn for the result bounder
MaxCapRows == 3     \* largest max_rows drawn for the result bounder
MaxCapBytes == 33   \* largest max_bytes drawn for the result bounder
MaxSqlTokens == 4   \* most pieces a drawn SQL text is put together from

Workers == 0 .. (NUM_WORKERS - 1)

Min(a, b) == IF a <= b THEN a ELSE b

-----------------------------------------------------------------------------
(* Query guard, src/query_validator.py                                     *)

WRITE_KEYWORDS ==
  <<"INSERT", "UPDATE", "DELETE", "DROP", "CREATE", "ALTER", "TRUNCATE",
    "GRANT", "REVOKE", "COPY", "EXECUTE", "CALL">>

KeywordChars ==
  [INSERT |-> <<"I", "N", "S", "E", "R", "T">>,
   UPDATE |-> <<"U", "P", "D", "A", "T", "E">>,
   DELETE |-> <<"D", "E", "L", "E", "T", "E">>,
   DROP |-> <<"D", "R", "O", "P">>,
   CREATE |-> <<"C", "R", "E", "A", "T", "E">>,
   ALTER |-> <<"A", "L", "T", "E", "R">>,
   TRUNCATE |-> <<"T", "R", "U", "N", "C", "A", "T", "E">>,
   GRANT |-> <<"G", "R", "A", "N", "T">>,
   REVOKE |-> <<"R", "E", "V", "O", "K", "E">>,
   COPY |-> <<"C", "O", "P", "Y">>,
   EXECUTE |-> <<"E", "X", "E", "C", "U", "T", "E">>,
   CALL |-> <<"C", "A", "L", "L">>]

UpperOf ==
  [a |-> "A", b |-> "B", c |-> "C", d |-> "D", e |-> "E", f |-> "F", g |-> "G",
   h |-> "H", i |-> "I", j |-> "J", k |-> "K", l |-> "L", m |-> "M", n |-> "N",
   o |-> "O", p |-> "P", q |-> "Q", r |-> "R", s |-> "S", t |-> "T", u |-> "U",
   v |-> "V", w |-> "W", x |-> "X", y |-> "Y", z |-> "Z"]

Whitespace == {" ", "\t", "\n", "\r"}

Digits == {"0", "1", "2", "3", "4", "5", "6", "7", "8", "9"}

\* The characters the regex class \w matches (ASCII).
IsWordChar(ch) ==
  \/ ch \in DOMAIN UpperOf
  \/ ch \in {UpperOf[l] : l \in DOMAIN UpperOf}
  \/ ch \in Digits
  \/ ch = "_"

\* Whether `pat` occurs in `s` starting at index i.
MatchAt(s, i, pat) ==
  /\ i >= 1
  /\ i + Len(pat) - 1 <= Len(s)
  /\ \A k \in 1 .. Len(pat) : s[i + k - 1] = pat[k]

\* re.sub(r'--.*$', '', sql, flags=re.MULTILINE): each "--" and what follows it
\* on its line is removed; the newline stays.
RECURSIVE StripLineFrom(_, _)
StripLineFrom(s, i) ==
  IF i > Len(s) THEN <<>>
  ELSE IF MatchAt(s, i, <<"-", "-">>)
       THEN LET ends == {j \in i .. Len(s) : s[j] = "\n"}
                eol  == IF ends = {} THEN Len(s) + 1
                        ELSE CHOOSE j \in ends : \A k \in ends : j <= k
            IN  StripLineFrom(s, eol)
       ELSE <<s[i]>> \o StripLineFrom(s, i + 1)

StripLineComments(s) == StripLineFrom(s, 1)

\* re.sub(r'/\*.*?\*/', '', cleaned, flags=re.DOTALL): each "/*" up to the
\* nearest following "*/" is removed; an unterminated "/*" stays.
RECURSIVE StripBlockFrom(_, _)
StripBlockFrom(s, i) ==
  IF i > Len(s) THEN <<>>
  ELSE LET closes == {j \in (i + 2) .. Len(s) : MatchAt(s, j, <<"*", "/">>)}
       IN  IF MatchAt(s, i, <<"/", "*">>) /\ closes # {}
           THEN StripBlockFrom(s, (CHOOSE j \in closes : \A k \in closes : j <= k) + 2)
           ELSE <<s[i]>> \o StripBlockFrom(s, i + 1)

StripBlockComments(s) == StripBlockFrom(s, 1)

\* str.strip()
Strip(s) ==
  LET keep == {i \in 1 .. Len(s) : s[i] \notin Whitespace}
  IN  IF keep = {} THEN <<>>
      ELSE SubSeq(s, CHOOSE i \in keep : \A k \in keep : i <= k,
                     CHOOSE i \in keep : \A k \in keep : i >= k)

\* str.upper()
Upper(s) == [i \in 1 .. Len(s) |-> IF s[i] \in DOMAIN UpperOf THEN UpperOf[s[i]] ELSE s[i]]

\* str.startswith
StartsWith(s, prefix) == MatchAt(s, 1, prefix)

\* re.search(rf'\b{keyword}\b', upper)
ContainsWord(s, word) ==
  \E i \in 1 .. Len(s) :
    /\ MatchAt(s, i, word)
    /\ (i = 1 \/ ~IsWordChar(s[i - 1]))
    /\ (i + Len(word) > Len(s) \/ ~IsWordChar(s[i + Len(word)]))

validate_query_case_sensitive(sql) ==
  LET cleaned == Strip(StripBlockComments(StripLineComments(sql)))
      upper   == Upper(cleaned)
      hits    == {k \in 1 .. Len(WRITE_KEYWORDS) :
                    ContainsWord(cleaned, KeywordChars[WRITE_KEYWORDS[k]])}
  IN  IF cleaned = <<>>
      THEN [is_valid |-> FALSE, error |-> "Empty query"]
      ELSE IF ~(\/ StartsWith(upper, <<"S", "E", "L", "E", "C", "T">>)
                \/ StartsWith(upper, <<"W", "I", "T", "H">>))
      THEN [is_valid |-> FALSE, error |-> "Only SELECT queries are allowed"]
      ELSE IF hits # {}
      THEN [is_valid |-> FALSE,
            error |-> "Query contains forbidden keyword: "
                      \o WRITE_KEYWORDS[CHOOSE k \in hits : \A m \in hits : k <= m]]
      ELSE [is_valid |-> TRUE, error |-> ""]

\* validate_query(sql) -> (is_valid, error_message)
validate_query(sql) ==
  LET cleaned == Strip(StripBlockComments(StripLineComments(sql)))
      upper   == Upper(cleaned)
      hits    == {k \in 1 .. Len(WRITE_KEYWORDS) :
                    ContainsWord(upper, KeywordChars[WRITE_KEYWORDS[k]])}
  IN  IF cleaned = <<>>
      THEN [is_valid |-> FALSE, error |-> "Empty query"]
      ELSE IF ~(\/ StartsWith(upper, <<"S", "E", "L", "E", "C", "T">>)
                \/ StartsWith(upper, <<"W", "I", "T", "H">>))
      THEN [is_valid |-> FALSE, error |-> "Only SELECT queries are allowed"]
      ELSE IF hits # {}
      THEN [is_valid |-> FALSE,
            error |-> "Query contains forbidden keyword: "
                      \o WRITE_KEYWORDS[CHOOSE k \in hits : \A m \in hits : k <= m]]
      ELSE [is_valid |-> TRUE, error |-> ""]

-----------------------------------------------------------------------------
(* Result bounding, agent.py:87-126.  A database value is its Python type  *)
(* and its str() text; a fetched row (an asyncpg Record) is a sequence of  *)
(* <<column, value>> pairs.                                                *)

NoneV       == [kind |-> "none",  text |-> "None"]
IntV(t)     == [kind |-> "int",   text |-> t]
StrV(t)     == [kind |-> "str",   text |-> t]
BoolV(t)    == [kind |-> "bool",  text |-> t]
OtherV(t)   == [kind |-> "other", text |-> t]    \* Decimal, datetime, UUID, ...

\* PebbleAgent._serialize_value
serialize_value(value) ==
  IF value.kind = "none" THEN value
  ELSE IF value.kind \in {"int", "float", "str", "bool"} THEN value
  ELSE StrV(value.text)

\* json.dumps of one serialized value (ASCII text without escapes).
JsonValue(v) ==
  CASE v.kind = "none" -> "null"
    [] v.kind = "bool" -> (IF v.text = "True" THEN "true" ELSE "false")
    [] v.kind = "str"  -> "\"" \o v.text \o "\""
    [] OTHER           -> v.text

\* json.dumps of a list: "[" item ", " item ... "]"
RECURSIVE JsonItems(_, _)
JsonItems(row_data, i) ==
  IF i > Len(row_data) THEN ""
  ELSE (IF i > 1 THEN ", " ELSE "") \o JsonValue(row_data[i]) \o JsonItems(row_data, i + 1)

JsonDumps(row_data) == "[" \o JsonItems(row_data, 1) \o "]"

\* len(json.dumps(row_data).encode()): one byte per ASCII character.
RowBytes(row_data) == Len(JsonDumps(row_data))

\* list(rows[0].keys())
Keys(row) == [i \in 1 .. Len(row) |-> row[i][1]]

\* row[col]
RowGet(row, col) == row[CHOOSE i \in 1 .. Len(row) : row[i][1] = col][2]

\* agent.py:100
RowData(row, columns) ==
  [c \in 1 .. Len(columns) |-> serialize_value(RowGet(row, columns[c]))]

RowCapOffByOne(result_rows, max_rows) == Len(result_rows) > max_rows

\* The row-cap test of the loop, agent.py:96.
RowCapReached(result_rows, max_rows) == Len(result_rows) >= max_rows

\* The byte-cap test of the loop, agent.py:103.
ByteCapExceeded(total_bytes, row_bytes, max_bytes) == total_bytes + row_bytes > max_bytes

ByteCapBreakUnflagged(result_rows, total_bytes) ==
  [rows |-> result_rows, bytes |-> total_bytes, truncated |-> FALSE]

ByteCapBreakDropsAll(result_rows, total_bytes) ==
  [rows |-> <<>>, bytes |-> 0, truncated |-> TRUE]

\* What the loop leaves when it breaks on the byte cap, agent.py:103-105.
ByteCapBreak(result_rows, total_bytes) ==
  [rows |-> result_rows, bytes |-> total_bytes, truncated |-> TRUE]

RECURSIVE BoundLoopSkipping(_, _, _, _, _, _, _)
BoundLoopSkipping(rows, i, columns, result_rows, total_bytes, max_rows, max_bytes) ==
  IF i > Len(rows)
  THEN [rows |-> result_rows, bytes |-> total_bytes,
        truncated |-> Len(result_rows) < Len(rows)]
  ELSE IF RowCapReached(result_rows, max_rows)
  THEN [rows |-> result_rows, bytes |-> total_bytes, truncated |-> TRUE]
  ELSE LET row_data  == RowData(rows[i], columns)
           row_bytes == RowBytes(row_data)
       IN  IF ByteCapExceeded(total_bytes, row_bytes, max_bytes)
           THEN BoundLoopSkipping(rows, i + 1, columns, result_rows, total_bytes,
                                  max_rows, max_bytes)
           ELSE BoundLoopSkipping(rows, i + 1, columns, Append(result_rows, row_data),
                                  total_bytes + row_bytes, max_rows, max_bytes)

\* The for loop of agent.py:95-108 from its i-th iteration on.
RECURSIVE BoundLoop(_, _, _, _, _, _, _)
BoundLoop(rows, i, columns, result_rows, total_bytes, max_rows, max_bytes) ==
  IF i > Len(rows)
  THEN [rows |-> result_rows, bytes |-> total_bytes, truncated |-> FALSE]
  ELSE IF RowCapReached(result_rows, max_rows)
  THEN [rows |-> result_rows, bytes |-> total_bytes, truncated |-> TRUE]
  ELSE LET row_data  == RowData(rows[i], columns)
           row_bytes == RowBytes(row_data)
       IN  IF ByteCapExceeded(total_bytes, row_bytes, max_bytes)
           THEN ByteCapBreak(result_rows, total_bytes)
           ELSE BoundLoop(rows, i + 1, columns, Append(result_rows, row_data),
                          total_bytes + row_bytes, max_rows, max_bytes)

EmptyResult ==
  [columns |-> <<>>, rows |-> <<>>, row_count |-> 0, bytes |-> 0, truncated |-> FALSE]

\* execute_query from the fetched rows to the returned structure, agent.py:87-116.
bound_rows(rows, max_rows, max_bytes) ==
  IF rows = <<>> THEN EmptyResult
  ELSE LET columns == Keys(rows[1])
           acc     == BoundLoop(rows, 1, columns, <<>>, 0, max_rows, max_bytes)
       IN  [columns   |-> columns,
            rows      |-> acc.rows,
            row_count |-> Len(acc.rows),
            bytes     |-> acc.bytes,
            truncated |-> acc.truncated]

\* Rows a query may produce: two columns, JSON sizes 9, 10 and 11 bytes.
RowA == << <<"id", IntV("1")>>,  <<"v", NoneV>> >>
RowB == << <<"id", IntV("22")>>, <<"v", BoolV("True")>> >>
RowC == << <<"id", IntV("3")>>,  <<"v", OtherV("1.50")>> >>
RowSamples == {RowA, RowB, RowC}

RECURSIVE SeqsUpTo(_, _)
SeqsUpTo(S, n) ==
  IF n = 0 THEN {<<>>}
  ELSE LET shorter == SeqsUpTo(S, n - 1)
       IN  shorter \cup {Append(q, x) : q \in {r \in shorter : Len(r) = n - 1}, x \in S}

-----------------------------------------------------------------------------
(* Values of the worker loop                                               *)

None == [some |-> FALSE]
Some(v) == [some |-> TRUE, value |-> v]

\* An exception: its class, str(e), and the call of the worker that raised it.
Exc(type, msg, origin) == [type |-> type, msg |-> msg, origin |-> origin]
NoExc == Exc("", "", "")

\* A "job" payload of the poll response: a JSON object with some of its keys.
JobDict(keys, id, sql, timeout_seconds) ==
  [keys |-> keys, id |-> id, sql |-> sql, timeout_seconds |-> timeout_seconds]

SqlSelect == <<"S", "E", "L", "E", "C", "T", " ", "1">>
SqlDelete == <<"D", "E", "L", "E", "T", "E", " ", "F", "R", "O", "M", " ",
               "u", "s", "e", "r", "s">>

JobSelect == JobDict({"id", "sql", "database_name", "timeout_seconds"}, "j1", SqlSelect, 30)
JobDelete == JobDict({"id", "sql", "database_name", "timeout_seconds"}, "j2", SqlDelete, 30)
JobNoSql  == JobDict({"id"}, "j3", <<>>, 0)

\* What the backend may put under "job": a job, a malformed job, or null.
JobPayloads == {Some(JobSelect), Some(JobDelete), Some(JobNoSql), None}

\* Python truth value of the polled job: None and {} are false.
JobTruthy(j) == j.some /\ j.value.keys # {}

\* Row sequences conn.fetch may return: none, one that fits the caps, and
\* one longer than the caps allow.
FetchSamples == {<<>>, <<RowA>>, <<RowA, RowB, RowC>>}

\* Outcomes of the HTTP exchange of poll_for_job, agent.py:60-73.
PollOutcomes ==
  {"200", "200_no_job_key", "200_wrong_content_type", "200_malformed_json",
   "401", "500", "client_error", "timeout"}

\* Outcomes of the HTTP exchange of complete_job, agent.py:149-156.
CompleteOutcomes == {"200", "500", "500_undecodable_text", "client_error", "timeout"}

ConnectOutcomes == {"ok", "timeout", "error"}
ExecuteOutcomes == {"ok", "error"}
FetchOutcomes   == {"rows", "error", "statement_timeout"}
CloseOutcomes   == {"ok", "error"}

-----------------------------------------------------------------------------
(* Backend client, agent.py:49-73 and agent.py:128-156                     *)

Returned(v) == [raised |-> FALSE, value |-> v, exc |-> NoExc]
Raised(e)   == [raised |-> TRUE, value |-> None, exc |-> e]

\* The except clause of poll_for_job and complete_job: aiohttp.ClientError only.
\* The total timeout of aiohttp.ClientTimeout expires as asyncio.TimeoutError
\* and a body that is not JSON fails as json.JSONDecodeError; neither is a
\* ClientError.  A 200 with a wrong content type is ContentTypeError, which is.
IsClientError(outcome) == outcome \in {"client_error", "200_wrong_content_type"}

\* poll_for_job: what the call returns or raises for an HTTP outcome.
poll_for_job(outcome, payload) ==
  CASE outcome = "200"                -> Returned(payload)       \* result.get("job")
    [] outcome = "200_no_job_key"     -> Returned(None)
    [] outcome = "401"                -> Returned(None)
    [] outcome = "500"                -> Returned(None)
    [] IsClientError(outcome)         -> Returned(None)
    [] outcome = "200_malformed_json" ->
         Raised(Exc("JSONDecodeError", "Expecting value: line 1 column 1 (char 0)",
                    "poll_for_job"))
    [] outcome = "timeout"            -> Raised(Exc("TimeoutError", "", "poll_for_job"))

\* The request body complete_job builds, agent.py:137-145.  `error` is None or
\* Some(message), `results` is None or Some(result).
ErrorTruthy(error) == error.some /\ error.value # ""
ResultsTruthy(results) == results.some      \* a result dict always has five keys

CompleteData(job_id, results, error) ==
  LET data == [company_id |-> "PEBBLE_COMPANY_ID", job_id |-> job_id,
               execution_time_ms |-> "elapsed"]
  IN  IF ErrorTruthy(error) THEN data @@ ("error" :> error.value)
      ELSE IF ResultsTruthy(results) THEN data @@ ("results" :> results.value)
      ELSE data

\* The HTTP exchange of complete_job, agent.py:148-156.
complete_job_post(outcome) ==
  CASE outcome = "timeout" -> Raised(Exc("TimeoutError", "", "complete_job"))
    [] outcome = "500_undecodable_text" ->          \* resp.text(), agent.py:153
         Raised(Exc("UnicodeDecodeError", "'utf-8' codec can't decode byte 0xff",
                    "complete_job"))
    [] OTHER -> Returned(None)

-----------------------------------------------------------------------------
(* Worker loop, agent.py:159-195.  `st` is one worker's local state.       *)

Local(w) ==
  [pc |-> pc[w], consecutive_errors |-> consecutive_errors[w], job |-> job[w],
   conn |-> conn[w], pending |-> pending[w], sleep |-> sleep[w],
   caught |-> caught[w], executed |-> executed[w], db_log |-> db_log[w],
   sent |-> sent[w], fail_streak |-> fail_streak[w]]

StoreSharedCounter(w, st) ==
  /\ pc' = [pc EXCEPT ![w] = st.pc]
  /\ consecutive_errors' = [v \in DOMAIN consecutive_errors |-> st.consecutive_errors]
  /\ job' = [job EXCEPT ![w] = st.job]
  /\ conn' = [conn EXCEPT ![w] = st.conn]
  /\ pending' = [pending EXCEPT ![w] = st.pending]
  /\ sleep' = [sleep EXCEPT ![w] = st.sleep]
  /\ caught' = [caught EXCEPT ![w] = st.caught]
  /\ executed' = [executed EXCEPT ![w] = st.executed]
  /\ db_log' = [db_log EXCEPT ![w] = st.db_log]
  /\ sent' = [sent EXCEPT ![w] = st.sent]
  /\ fail_streak' = [fail_streak EXCEPT ![w] = st.fail_streak]
  /\ UNCHANGED pure

\* The locals of worker w's coroutine after its step; no other coroutine's change.
Store(w, st) ==
  /\ pc' = [pc EXCEPT ![w] = st.pc]
  /\ consecutive_errors' = [consecutive_errors EXCEPT ![w] = st.consecutive_errors]
  /\ job' = [job EXCEPT ![w] = st.job]
  /\ conn' = [conn EXCEPT ![w] = st.conn]
  /\ pending' = [pending EXCEPT ![w] = st.pending]
  /\ sleep' = [sleep EXCEPT ![w] = st.sleep]
  /\ caught' = [caught EXCEPT ![w] = st.caught]
  /\ executed' = [executed EXCEPT ![w] = st.executed]
  /\ db_log' = [db_log EXCEPT ![w] = st.db_log]
  /\ sent' = [sent EXCEPT ![w] = st.sent]
  /\ fail_streak' = [fail_streak EXCEPT ![w] = st.fail_streak]
  /\ UNCHANGED pure

\* Worker w moves to local state `next` (evaluated once).
Apply(w, next) == \E st \in {next} : Store(w, st)

BackoffDoubling(count) == Min(2 * count, BackoffCap)

\* agent.py:193
Backoff(count) == Min(2 ^ count, BackoffCap)

OuterHandlerExits(st, e) == [st EXCEPT !.caught = e, !.pc = "exited"]

\* The loop-level handler, agent.py:191-195, up to its sleep.
OuterHandler(st, e) ==
  [st EXCEPT !.caught = e,
             !.consecutive_errors = st.consecutive_errors + 1,
             !.fail_streak = st.fail_streak + 1,
             !.sleep = Backoff(st.consecutive_errors + 1),
             !.pc = "backoff"]

\* A call of complete_job up to its HTTP exchange, agent.py:132-149.
CallCompleteJob(st, at, results, error) ==
  [st EXCEPT !.sent = Append(st.sent, CompleteData(st.job.value.id, results, error)),
             !.pc = at]

\* The job-level handler, agent.py:181-184, up to the await in complete_job.
InnerHandler(st, e) ==
  CallCompleteJob([st EXCEPT !.caught = e], "complete_err", None, Some(e.msg))

\* execute_query ends by raising e, agent.py:174-181.
ExecuteRaised(st, e) ==
  InnerHandler([st EXCEPT !.executed = "raised", !.pending = None], e)

\* execute_query returns, agent.py:174-180.
ExecuteReturned(st, result) ==
  CallCompleteJob([st EXCEPT !.executed = "returned", !.pending = None],
                  "complete", Some(result), None)

\* A job has been handled, agent.py:186, and the loop turns.
JobHandled(st) ==
  [st EXCEPT !.consecutive_errors = 0, !.fail_streak = 0, !.pc = "poll"]

\* validate_query on the SQL of the jobs (computed once).
JobSqls == {SqlSelect, SqlDelete}
ValidationOf == [sql \in JobSqls |-> validate_query(sql)]

ValidationSkipped(sql) == FALSE

\* is_valid, error = validate_query(sql); if not is_valid: ..., agent.py:77-78
ValidationFails(sql) == ~ValidationOf[sql].is_valid

\* execute_query from its entry to its first await, agent.py:77-81.
EnterExecuteQuery(st) ==
  IF ValidationFails(st.job.value.sql)
  THEN ExecuteRaised(st, Exc("ValueError",
                             "Query validation failed: "
                               \o ValidationOf[st.job.value.sql].error,
                             "execute_query"))
  ELSE [st EXCEPT !.pc = "connect"]

CloseOnSuccessOnly(st, leaving) ==
  IF leaving.raised THEN ExecuteRaised(st, leaving.exc)
  ELSE [st EXCEPT !.pending = Some(leaving), !.pc = "close"]

\* The finally clause, agent.py:117-118: the try block is left with `leaving`
\* (a value to return or an exception) and conn.close() is awaited.
Finally(st, leaving) == [st EXCEPT !.pending = Some(leaving), !.pc = "close"]

\* The body of the loop from the value poll_for_job returned, agent.py:169-189.
AfterPollKeepsCounter(st, polled) ==
  LET st1 == [st EXCEPT !.job = polled]
  IN  IF JobTruthy(polled)
      THEN IF {"id", "sql"} \subseteq polled.value.keys
           THEN EnterExecuteQuery(st1)
           ELSE OuterHandler(st1, Exc("KeyError",
                                      IF "id" \in polled.value.keys THEN "'sql'" ELSE "'id'",
                                      "worker"))
      ELSE [st1 EXCEPT !.sleep = POLL_INTERVAL, !.pc = "idle"]

AfterPoll(st, polled) ==
  LET st1 == [st EXCEPT !.job = polled]
  IN  IF JobTruthy(polled)
      THEN IF {"id", "sql"} \subseteq polled.value.keys
           THEN EnterExecuteQuery(st1)
           ELSE OuterHandler(st1, Exc("KeyError",                        \* agent.py:170
                                      IF "id" \in polled.value.keys THEN "'sql'" ELSE "'id'",
                                      "worker"))
      ELSE [st1 EXCEPT !.consecutive_errors = 0, !.fail_streak = 0,
                       !.sleep = POLL_INTERVAL, !.pc = "idle"]

\* What a new cycle starts from: no job, and nothing issued yet for the job to
\* come.  The record of a cycle is kept until the worker next polls or wakes.
NewCycle(st) ==
  [st EXCEPT !.job = None, !.caught = NoExc, !.executed = "not_run", !.db_log = <<>>,
             !.sent = <<>>, !.pending = None]

\* A loop-level failure is explored only while the counter is below the bound.
MayFail(w) == consecutive_errors[w] < MaxErrors

-----------------------------------------------------------------------------
(* Actions: one per await of the worker coroutine, each with the code that *)
(* runs from the await's outcome to the next await.                        *)

\* await agent.poll_for_job(session), agent.py:167
Poll(w) ==
  /\ pc[w] = "poll"
  /\ \E outcome \in PollOutcomes :
     \E payload \in (IF outcome = "200" THEN JobPayloads ELSE {None}) :
       LET r  == poll_for_job(outcome, payload)
           st == NewCycle(Local(w))
       IN  /\ (r.raised \/ (JobTruthy(r.value) /\ ~({"id", "sql"} \subseteq r.value.value.keys)))
                => MayFail(w)
           /\ Apply(w, IF r.raised THEN OuterHandler(st, r.exc) ELSE AfterPoll(st, r.value))

\* await asyncio.wait_for(self.get_connection(), CONNECTION_TIMEOUT), agent.py:81,
\* and on success the SET statement of agent.py:83 is issued.
Connect(w) ==
  /\ pc[w] = "connect"
  /\ \E outcome \in ConnectOutcomes :
       LET st == Local(w)
       IN  Apply(w,
             CASE outcome = "ok" ->
                    [st EXCEPT !.conn = "open",
                               !.db_log = st.db_log \o
                                 <<"acquire",
                                   <<"SET statement_timeout", st.job.value.timeout_seconds * 1000>> >>,
                               !.pc = "set_timeout"]
               [] outcome = "timeout" ->
                    ExecuteRaised(st, Exc("TimeoutError", "", "execute_query"))
               [] outcome = "error" ->
                    ExecuteRaised(st, Exc("ConnectorError", "connection failed",
                                          "execute_query")))

\* await conn.execute("SET statement_timeout ..."), agent.py:83, and on success
\* the query of agent.py:85 is issued.
SetTimeout(w) ==
  /\ pc[w] = "set_timeout"
  /\ \E outcome \in ExecuteOutcomes :
       LET st == Local(w)
       IN  Apply(w,
             IF outcome = "ok"
             THEN [st EXCEPT !.db_log = Append(st.db_log, "fetch"), !.pc = "fetch"]
             ELSE Finally(st, Raised(Exc("PostgresError", "SET failed", "execute_query"))))

\* await conn.fetch(sql), agent.py:85, and the bounding of agent.py:87-116.
Fetch(w) ==
  /\ pc[w] = "fetch"
  /\ \E outcome \in FetchOutcomes :
     \E rows \in (IF outcome = "rows" THEN FetchSamples ELSE {<<>>}) :
       LET st == Local(w)
       IN  Apply(w,
             CASE outcome = "rows" ->
                    Finally(st, Returned(bound_rows(rows, MAX_RESULT_ROWS, MAX_RESULT_BYTES)))
               [] outcome = "error" ->
                    Finally(st, Raised(Exc("PostgresError", "relation does not exist",
                                           "execute_query")))
               [] outcome = "statement_timeout" ->
                    Finally(st, Raised(Exc("QueryCanceledError",
                                           "canceling statement due to statement timeout",
                                           "execute_query"))))

\* await conn.close(), agent.py:118, then execute_query returns or raises what
\* the try block left with; a failing close raises in its place.  The session
\* is gone either way (asyncpg aborts a connection whose close fails).
Close(w) ==
  /\ pc[w] = "close"
  /\ \E outcome \in CloseOutcomes :
       LET st  == [Local(w) EXCEPT !.conn = "none", !.db_log = Append(@, "close")]
           out == st.pending.value
       IN  Apply(w,
             IF outcome = "error"
             THEN ExecuteRaised(st, Exc("ConnectionError", "close failed", "execute_query"))
             ELSE IF out.raised THEN ExecuteRaised(st, out.exc)
             ELSE ExecuteReturned(st, out.value))

\* The HTTP exchange of complete_job(results=...), agent.py:180, then agent.py:186
\* or, if the call raised, the job-level handler of agent.py:181-184.
Complete(w) ==
  /\ pc[w] = "complete"
  /\ \E outcome \in CompleteOutcomes :
       LET r == complete_job_post(outcome)
       IN  Apply(w, IF r.raised THEN InnerHandler(Local(w), r.exc)
                    ELSE JobHandled(Local(w)))

\* The HTTP exchange of complete_job(error=...), agent.py:184, then agent.py:186
\* or, if the call raised, the loop-level handler.
CompleteErr(w) ==
  /\ pc[w] = "complete_err"
  /\ \E outcome \in CompleteOutcomes :
       LET r == complete_job_post(outcome)
       IN  /\ r.raised => MayFail(w)
           /\ Apply(w, IF r.raised THEN OuterHandler(Local(w), r.exc)
                       ELSE JobHandled(Local(w)))

\* await asyncio.sleep(POLL_INTERVAL) ends, agent.py:189
IdleWake(w) ==
  /\ pc[w] = "idle"
  /\ Apply(w, [NewCycle(Local(w)) EXCEPT !.sleep = 0, !.pc = "poll"])

\* await asyncio.sleep(backoff) ends, agent.py:195
BackoffWake(w) ==
  /\ pc[w] = "backoff"
  /\ Apply(w, [NewCycle(Local(w)) EXCEPT !.sleep = 0, !.pc = "poll"])

WorkerStep(w) ==
  \/ Poll(w) \/ Connect(w) \/ SetTimeout(w) \/ Fetch(w) \/ Close(w)
  \/ Complete(w) \/ CompleteErr(w) \/ IdleWake(w) \/ BackoffWake(w)

PureOff == [stage |-> "off", rows |-> <<>>, max_rows |-> 0, max_bytes |-> 0,
            out |-> EmptyResult]

\* run() has set the connector up and started the workers, main.py:50-56.
InitWorkers ==
  /\ pc = [w \in Workers |-> "poll"]
  /\ consecutive_errors = [w \in Workers |-> 0]
  /\ job = [w \in Workers |-> None]
  /\ conn = [w \in Workers |-> "none"]
  /\ pending = [w \in Workers |-> None]
  /\ sleep = [w \in Workers |-> 0]
  /\ caught = [w \in Workers |-> NoExc]
  /\ executed = [w \in Workers |-> "not_run"]
  /\ db_log = [w \in Workers |-> <<>>]
  /\ sent = [w \in Workers |-> <<>>]
  /\ fail_streak = [w \in Workers |-> 0]

Init == InitWorkers /\ pure = PureOff

Next == \E w \in Workers : WorkerStep(w)

Spec == Init /\ [][Next]_vars

\* The event loop runs every worker that can take a step.
FairSpec == Spec /\ \A w \in Workers : WF_vars(WorkerStep(w))

-----------------------------------------------------------------------------
(* The result bounder applied to drawn inputs.                             *)

InitBound ==
  /\ InitWorkers
  /\ pure \in [stage : {"input"}, rows : SeqsUpTo(RowSamples, MaxFetchLen),
               max_rows : 0 .. MaxCapRows, max_bytes : 0 .. MaxCapBytes,
               out : {EmptyResult}]

BoundApply ==
  /\ pure.stage = "input"
  /\ pure' = [pure EXCEPT !.stage = "done",
                          !.out = bound_rows(pure.rows, pure.max_rows, pure.max_bytes)]
  /\ UNCHANGED <<pc, consecutive_errors, job, conn, pending, sleep, caught, executed,
                 db_log, sent, fail_streak>>

NextBound == BoundApply

SpecBound == InitBound /\ [][NextBound]_vars

-----------------------------------------------------------------------------
(* The query guard applied to drawn SQL texts.                             *)

\* Pieces a drawn SQL text is put together from: a statement start, two write
\* keywords in lower and mixed case behind a blank, a line end, the comment
\* markers, and a letter.
SqlTokens ==
  {<<"S", "E", "L", "E", "C", "T">>,
   <<" ", "d", "e", "l", "e", "t", "e">>,
   <<" ", "D", "r", "o", "p">>,
   <<"\n">>, <<"-", "-">>, <<"/", "*">>, <<"*", "/">>, <<"x">>}

RECURSIVE Flatten(_)
Flatten(ts) == IF ts = <<>> THEN <<>> ELSE Head(ts) \o Flatten(Tail(ts))

SqlInputs ==
  {Flatten(ts) : ts \in SeqsUpTo(SqlTokens, MaxSqlTokens)} \cup {SqlSelect, SqlDelete}

InitValidate ==
  /\ InitWorkers
  /\ pure \in [stage : {"sql_input"}, sql : SqlInputs,
               verdict : {[is_valid |-> FALSE, error |-> ""]}]

ValidateApply ==
  /\ pure.stage = "sql_input"
  /\ pure' = [pure EXCEPT !.stage = "sql_done", !.verdict = validate_query(pure.sql)]
  /\ UNCHANGED <<pc, consecutive_errors, job, conn, pending, sleep, caught, executed,
                 db_log, sent, fail_streak>>

NextValidate == ValidateApply

SpecValidate == InitValidate /\ [][NextValidate]_vars

-----------------------------------------------------------------------------
(* Startup, main.py:17-58, from a drawn environment to the first polls.    *)

\* The settings config.py reads without a usable default, config.py:6-15.
EnvNames ==
  {"PEBBLE_API_URL", "PEBBLE_AGENT_API_KEY", "PEBBLE_COMPANY_ID", "GCP_PROJECT_ID",
   "GCP_REGION", "GCP_INSTANCE_NAME", "DB_NAME", "DB_IAM_USER"}

\* The settings main() tests, in the order of its if statements, main.py:21-34.
CheckedNames ==
  <<"PEBBLE_AGENT_API_KEY", "PEBBLE_COMPANY_ID", "GCP_PROJECT_ID", "GCP_REGION",
    "GCP_INSTANCE_NAME", "DB_NAME", "DB_IAM_USER">>

\* The list `missing` of main(): `env` is the set of settings with a non-empty value.
MissingOf(env) ==
  LET IsMissing(name) == name \notin env
  IN  SelectSeq(CheckedNames, IsMissing)

\* The process before main() runs: no worker coroutine exists yet.
InitMain ==
  /\ pc = [w \in Workers |-> "unstarted"]
  /\ consecutive_errors = [w \in Workers |-> 0]
  /\ job = [w \in Workers |-> None]
  /\ conn = [w \in Workers |-> "none"]
  /\ pending = [w \in Workers |-> None]
  /\ sleep = [w \in Workers |-> 0]
  /\ caught = [w \in Workers |-> NoExc]
  /\ executed = [w \in Workers |-> "not_run"]
  /\ db_log = [w \in Workers |-> <<>>]
  /\ sent = [w \in Workers |-> <<>>]
  /\ fail_streak = [w \in Workers |-> 0]
  /\ pure \in [stage : {"main"}, env : SUBSET EnvNames, missing : {<<>>},
               exit_status : {None}, connector : {"none"}]

\* main() up to sys.exit(1) or asyncio.run(run(config)), main.py:17-47.
MainCheck ==
  /\ pure.stage = "main"
  /\ LET missing == MissingOf(pure.env)
     IN  pure' = IF missing # <<>>
                 THEN [pure EXCEPT !.stage = "exited", !.missing = missing,
                                   !.exit_status = Some(1)]
                 ELSE [pure EXCEPT !.stage = "run"]
  /\ UNCHANGED <<pc, consecutive_errors, job, conn, pending, sleep, caught, executed,
                 db_log, sent, fail_streak>>

\* run(): agent.setup() creates the connector, main.py:51-53.
RunSetup ==
  /\ pure.stage = "run"
  /\ pure' = [pure EXCEPT !.stage = "setup_done", !.connector = "ready"]
  /\ UNCHANGED <<pc, consecutive_errors, job, conn, pending, sleep, caught, executed,
                 db_log, sent, fail_streak>>

\* run(): the worker coroutines are created and gathered, main.py:55-56.
StartWorkers ==
  /\ pure.stage = "setup_done"
  /\ pure' = [pure EXCEPT !.stage = "workers"]
  /\ pc' = [w \in Workers |-> "poll"]
  /\ UNCHANGED <<consecutive_errors, job, conn, pending, sleep, caught, executed,
                 db_log, sent, fail_streak>>

\* The first poll of a started worker.  Without a backend URL the request goes
\* to the bare path and brings no job.
FirstPoll(w) ==
  /\ pure.stage = "workers"
  /\ Poll(w)
  /\ "PEBBLE_API_URL" \notin pure.env => ~JobTruthy(job'[w])

NextMain == MainCheck \/ RunSetup \/ StartWorkers \/ \E w \in Workers : FirstPoll(w)

SpecMain == InitMain /\ [][NextMain]_vars

-----------------------------------------------------------------------------
(* Properties                                                              *)

\* The worker holds a job with the fields of the Job data model.
HoldsJob(w) == JobTruthy(job[w]) /\ {"id", "sql"} \subseteq job[w].value.keys

\* The worker's cycle is over: it is back at the poll or asleep in backoff.
CycleOver(w) == pc[w] \in {"poll", "backoff"}

Bodies(w) == {sent[w][i] : i \in 1 .. Len(sent[w])}

\* C1: for every job a worker received, complete_job is called exactly once:
\* never twice, and once the cycle is over not zero times.
C1_CompletedExactlyOnce ==
  \A w \in Workers :
    HoldsJob(w) =>
      /\ Len(sent[w]) <= 1
      /\ CycleOver(w) => Len(sent[w]) = 1

\* C2: a job whose SQL fails validate_query never gets a database session, a
\* statement or a result: execute_query raises the validation error before
\* get_connection, and that error is what is reported.
C2_ValidationIsGate ==
  \A w \in Workers :
    (HoldsJob(w) /\ ~ValidationOf[job[w].value.sql].is_valid) =>
      /\ conn[w] = "none"
      /\ db_log[w] = <<>>
      /\ pending[w] = None
      /\ executed[w] = "raised"
      /\ pc[w] \notin {"connect", "set_timeout", "fetch", "close", "complete"}
      /\ \A b \in Bodies(w) : "results" \notin DOMAIN b
      /\ Len(sent[w]) >= 1
      /\ sent[w][1]["error"] =
           "Query validation failed: " \o ValidationOf[job[w].value.sql].error

C2_Witness ==
  \E w \in Workers :
    /\ job[w] = Some(JobDelete)
    /\ pc[w] = "complete_err"
    /\ caught[w].type = "ValueError"

\* C3: a session is open only inside execute_query's try block; a worker that
\* polls, reports, sleeps or backs off holds none, and the operations issued for
\* one job are one fresh acquisition, its statements, and its close.
C3_SessionReleased ==
  \A w \in Workers :
    /\ conn[w] = "open" <=> pc[w] \in {"set_timeout", "fetch", "close"}
    /\ pc[w] \in {"poll", "connect", "complete", "complete_err", "idle", "backoff"}
         => conn[w] = "none"
    /\ db_log[w] # <<>> =>
         /\ db_log[w][1] = "acquire"
         /\ Cardinality({i \in 1 .. Len(db_log[w]) : db_log[w][i] = "acquire"}) = 1
         /\ \A i \in 1 .. Len(db_log[w]) :
              db_log[w][i] = "close" => i = Len(db_log[w])
    /\ (executed[w] # "not_run" /\ db_log[w] # <<>>) =>
         db_log[w][Len(db_log[w])] = "close"

C3_Witness ==
  \E w \in Workers :
    /\ pc[w] = "complete_err"
    /\ caught[w].type = "QueryCanceledError"
    /\ db_log[w][Len(db_log[w])] = "close"
    /\ conn[w] = "none"

\* C4: a job whose execute_query returned a result is reported with that result
\* and never through the error report; an error is reported only for a job whose
\* execute_query raised.
C4_ReportMatchesExecution ==
  \A w \in Workers :
    /\ executed[w] = "returned" =>
         /\ pc[w] # "complete_err"
         /\ \A b \in Bodies(w) : "results" \in DOMAIN b /\ "error" \notin DOMAIN b
    /\ (\E b \in Bodies(w) : "error" \in DOMAIN b) => executed[w] = "raised"

\* C5: every completion request body holds exactly one of `error` and `results`.
C5_ExactlyOneOfErrorResults ==
  \A w \in Workers :
    \A b \in Bodies(w) : ("error" \in DOMAIN b) # ("results" \in DOMAIN b)

\* C6: poll_for_job and complete_job never raise: no except clause of the worker
\* ever binds an exception that came out of either.
C6_ClientNeverRaises ==
  \A w \in Workers : caught[w].origin \notin {"poll_for_job", "complete_job"}

\* C7: the worker never leaves its loop and, whatever a cycle raised, polls again.
C7_NoTerminalState ==
  /\ [](\A w \in Workers :
          pc[w] \in {"poll", "connect", "set_timeout", "fetch", "close", "complete",
                     "complete_err", "idle", "backoff"})
  /\ \A w \in Workers : []<>(pc[w] = "poll")

C7_Witness ==
  \E w \in Workers :
    /\ pc[w] = "poll"
    /\ consecutive_errors[w] >= 2
    /\ caught[w] = NoExc

\* The delay of the k-th consecutive loop-level failure.
BackoffOfFailure(k) ==
  CASE k = 1 -> 2 [] k = 2 -> 4 [] k = 3 -> 8 [] k = 4 -> 16 [] k = 5 -> 32
    [] OTHER -> 60

\* C8: a loop-level failure adds exactly one to the counter and sleeps 2, 4, 8,
\* 16, 32 seconds for the 1st..5th failure in a row and 60 from the 6th on: each
\* delay is within 2..60 and no smaller than the one before it in the run.
C8_BackoffSchedule ==
  /\ [](\A w \in Workers :
          pc[w] = "backoff" =>
            /\ fail_streak[w] >= 1
            /\ consecutive_errors[w] = fail_streak[w]
            /\ sleep[w] = BackoffOfFailure(fail_streak[w])
            /\ sleep[w] >= 2 /\ sleep[w] <= 60)
  /\ [][\A w \in Workers :
          (pc[w] # "backoff" /\ pc'[w] = "backoff") =>
            /\ consecutive_errors'[w] = consecutive_errors[w] + 1
            /\ fail_streak[w] >= 1 => sleep'[w] >= BackoffOfFailure(fail_streak[w])]_vars

C8_Witness ==
  \E w \in Workers :
    /\ pc[w] = "backoff"
    /\ fail_streak[w] = 6
    /\ sleep[w] = 60

RECURSIVE SumBytes(_, _)
SumBytes(result_rows, n) ==
  IF n = 0 THEN 0 ELSE SumBytes(result_rows, n - 1) + RowBytes(result_rows[n])

\* C9: the returned result never exceeds the caps: row_count <= max_rows and
\* bytes <= max_bytes, row_count being the number of emitted rows and bytes the
\* sum of the JSON sizes of the emitted rows.
C9_WithinCaps ==
  pure.stage = "done" =>
    /\ pure.out.row_count <= pure.max_rows
    /\ pure.out.bytes <= pure.max_bytes
    /\ pure.out.row_count = Len(pure.out.rows)
    /\ pure.out.bytes = SumBytes(pure.out.rows, Len(pure.out.rows))

C9_Witness ==
  /\ pure.stage = "done"
  /\ pure.max_rows = 2
  /\ pure.out.row_count = 2
  /\ Len(pure.rows) = 3
  /\ pure.out.bytes = pure.max_bytes

\* C10: the emitted rows are the serialized rows of a prefix of the input, in
\* order, and truncated is true exactly when that prefix is strict.
C10_TruncatedIffStrictPrefix ==
  pure.stage = "done" =>
    /\ Len(pure.out.rows) <= Len(pure.rows)
    /\ \A i \in 1 .. Len(pure.out.rows) :
         pure.out.rows[i] = RowData(pure.rows[i], Keys(pure.rows[1]))
    /\ pure.out.truncated <=> Len(pure.out.rows) < Len(pure.rows)
    /\ (Len(pure.rows) <= pure.max_rows
          /\ SumBytes([i \in 1 .. Len(pure.rows) |->
                         RowData(pure.rows[i], Keys(pure.rows[1]))], Len(pure.rows))
               <= pure.max_bytes)
         => ~pure.out.truncated /\ Len(pure.out.rows) = Len(pure.rows)

C10_Witness ==
  /\ pure.stage = "done"
  /\ Len(pure.rows) = 3
  /\ pure.max_rows = 3
  /\ ~pure.out.truncated
  /\ pure.out.row_count = 3

\* The JSON size of the i-th fetched row, serialized under the first row's columns.
InputRowBytes(rows, i) == RowBytes(RowData(rows[i], Keys(rows[1])))

RECURSIVE InputBytes(_, _)
InputBytes(rows, n) ==
  IF n = 0 THEN 0 ELSE InputBytes(rows, n - 1) + InputRowBytes(rows, n)

\* The rows at which accumulation must stop: row i once i - 1 rows reach the row
\* cap, or once rows 1..i together exceed the byte cap.
CapViolating(rows, max_rows, max_bytes) ==
  {i \in 1 .. Len(rows) : i - 1 >= max_rows \/ InputBytes(rows, i) > max_bytes}

\* C11: the number of emitted rows is the index of the first cap-violating row
\* minus one (all rows when none violates): rows before it are emitted whole,
\* it and every later row are dropped, even a later row small enough to fit.
C11_StopsAtFirstViolation ==
  pure.stage = "done" =>
    LET stop == CapViolating(pure.rows, pure.max_rows, pure.max_bytes)
        first == IF stop = {} THEN Len(pure.rows) + 1
                 ELSE CHOOSE i \in stop : \A j \in stop : i <= j
    IN  /\ pure.out.row_count = first - 1
        /\ Len(pure.out.rows) = first - 1
        /\ \A i \in 1 .. (first - 1) :
             pure.out.rows[i] = RowData(pure.rows[i], Keys(pure.rows[1]))
        /\ pure.out.bytes = InputBytes(pure.rows, first - 1)

\* The first row overflows the byte cap and is dropped with the smaller rows
\* behind it, which would have fitted.
C11_Witness ==
  /\ pure.stage = "done"
  /\ pure.rows = <<RowA, RowC, RowA>>
  /\ pure.max_rows = 3
  /\ pure.max_bytes = 19
  /\ pure.out.row_count = 1
  /\ pure.out.bytes + InputRowBytes(pure.rows, 3) <= pure.max_bytes

\* C12: raising either cap never lowers the number of emitted rows: the result
\* under (max_rows, max_bytes) has at least as many rows as the result of the
\* same input under any caps no larger in both.
C12_MonotonicInCaps ==
  pure.stage = "done" =>
    \A max_rows1 \in 0 .. pure.max_rows, max_bytes1 \in 0 .. pure.max_bytes :
      pure.out.row_count >= bound_rows(pure.rows, max_rows1, max_bytes1).row_count

\* Caps under which a smaller pair of caps emits a row and the larger pair stops
\* on the byte cap.
C12_Witness ==
  /\ pure.stage = "done"
  /\ pure.rows = <<RowA, RowB>>
  /\ pure.max_rows = 2
  /\ pure.max_bytes = 9
  /\ pure.out.row_count = 1
  /\ bound_rows(pure.rows, 1, 9).row_count = 1
  /\ pure.out.truncated

\* The write keywords that occur as whole words, in any case, in the text left
\* after comment stripping.
KeywordsPresent(sql) ==
  LET upper == Upper(Strip(StripBlockComments(StripLineComments(sql))))
  IN  {k \in 1 .. Len(WRITE_KEYWORDS) : ContainsWord(upper, KeywordChars[WRITE_KEYWORDS[k]])}

\* The text left after comment stripping begins with SELECT or WITH in any case.
BeginsAsRead(sql) ==
  LET upper == Upper(Strip(StripBlockComments(StripLineComments(sql))))
  IN  \/ StartsWith(upper, <<"S", "E", "L", "E", "C", "T">>)
      \/ StartsWith(upper, <<"W", "I", "T", "H">>)

NamesKeyword(error, k) == error = "Query contains forbidden keyword: " \o WRITE_KEYWORDS[k]

RECURSIVE CommentsOnlyFrom(_, _, _)
CommentsOnlyFrom(s, i, seen) ==
  IF i > Len(s) THEN seen
  ELSE IF s[i] \in Whitespace THEN CommentsOnlyFrom(s, i + 1, seen)
  ELSE IF MatchAt(s, i, <<"-", "-">>)
  THEN LET ends == {j \in i .. Len(s) : s[j] = "\n"}
       IN  IF ends = {} THEN TRUE
           ELSE CommentsOnlyFrom(s, (CHOOSE j \in ends : \A k \in ends : j <= k) + 1, TRUE)
  ELSE IF MatchAt(s, i, <<"/", "*">>)
  THEN LET closes == {j \in (i + 2) .. Len(s) : MatchAt(s, j, <<"*", "/">>)}
       IN  IF closes = {} THEN FALSE
           ELSE CommentsOnlyFrom(s, (CHOOSE j \in closes : \A k \in closes : j <= k) + 2, TRUE)
  ELSE FALSE

\* C14: a text made only of comments and the whitespace between them is
\* invalid with the reason "Empty query".
C14_CommentsOnlyIsEmpty ==
  (pure.stage = "sql_done" /\ CommentsOnlyFrom(pure.sql, 1, FALSE)) =>
    pure.verdict = [is_valid |-> FALSE, error |-> "Empty query"]

\* C15: a step changes the state of at most one worker (its counter, job,
\* session, sleep and the rest of its locals), and whatever the other workers
\* are doing, asleep or waiting on the backend or the database, every worker
\* has a step it can take.
C15_WorkersIndependent ==
  /\ [][\A w \in Workers :
          Local(w)' # Local(w) => \A v \in Workers \ {w} : Local(v)' = Local(v)]_vars
  /\ [](\A w \in Workers : ENABLED WorkerStep(w))

\* One worker is in its sixth backoff with no session while the other holds an
\* open session for a job, its own counter zero.
C15_Witness ==
  \E w \in Workers, v \in Workers :
    /\ pc[w] = "backoff"
    /\ consecutive_errors[w] = 6
    /\ pc[v] = "fetch"
    /\ conn[v] = "open"
    /\ consecutive_errors[v] = 0

\* The values the configuration surface names as required: backend URL, agent
\* key, tenant id, project, region, instance, database name, IAM principal.
RequiredSettings ==
  {"PEBBLE_API_URL", "PEBBLE_AGENT_API_KEY", "PEBBLE_COMPANY_ID", "GCP_PROJECT_ID",
   "GCP_REGION", "GCP_INSTANCE_NAME", "DB_NAME", "DB_IAM_USER"}

\* C16: with a required value missing, main() goes no further than its check:
\* it exits with a non-zero status listing exactly the missing values, the
\* connector is never initialised, no worker starts and no poll is sent.
C16_MissingConfigStopsStartup ==
  (pure.stage \in {"main", "exited", "run", "setup_done", "workers"}
     /\ RequiredSettings \ pure.env # {}) =>
    /\ pure.stage \in {"main", "exited"}
    /\ pure.connector = "none"
    /\ \A w \in Workers : pc[w] = "unstarted"
    /\ pure.stage = "exited" =>
         /\ pure.exit_status # None /\ pure.exit_status # Some(0)
         /\ {pure.missing[i] : i \in 1 .. Len(pure.missing)} = RequiredSettings \ pure.env

\* C17: a poll that returns no job puts the worker to sleep for exactly
\* POLL_INTERVAL with its counter at zero, never into backoff, and the worker
\* wakes from that sleep into the next poll with the counter still zero.
C17_IdleSleepsPollInterval ==
  /\ [](\A w \in Workers :
          pc[w] = "idle" =>
            /\ sleep[w] = POLL_INTERVAL
            /\ consecutive_errors[w] = 0
            /\ ~JobTruthy(job[w]))
  /\ [][\A w \in Workers :
          /\ (pc[w] = "poll" /\ pc'[w] # "poll"
                /\ caught'[w] = NoExc /\ ~JobTruthy(job'[w])) =>
               /\ pc'[w] = "idle"
               /\ sleep'[w] = POLL_INTERVAL
               /\ consecutive_errors'[w] = 0
          /\ (pc[w] = "idle" /\ pc'[w] # "idle") =>
               /\ pc'[w] = "poll"
               /\ consecutive_errors'[w] = 0]_vars

\* Both workers asleep after polls that brought no job.
C17_Witness ==
  \A w \in Workers :
    /\ pc[w] = "idle"
    /\ sleep[w] = POLL_INTERVAL
    /\ consecutive_errors[w] = 0

\* C18: a worker that took a job never backs off on account of it: whatever the
\* outcome of the job and of its report, the worker reaches its next poll
\* without a backoff sleep and with its counter at zero.
C18_JobNeverBacksOff ==
  \A w \in Workers :
    HoldsJob(w) =>
      /\ pc[w] # "backoff"
      /\ pc[w] = "poll" => consecutive_errors[w] = 0

\* The database operations of one job in the order execute_query issues them.
InOrder(log) ==
  /\ Len(log) <= 4
  /\ \A i \in 1 .. Len(log) :
       /\ log[i] = "acquire" <=> i = 1
       /\ log[i] = "fetch" => i = 3 /\ log[2][1] = "SET statement_timeout"
       /\ log[i] = "close" => i = Len(log) /\ i >= 3
       /\ i = 2 => log[i][1] = "SET statement_timeout"

\* C19: a worker handles one job at a time and in order: nothing is validated,
\* acquired or reported before the poll has returned the job; the statement
\* timeout is set before the query is issued; the session is closed before a
\* completion request is sent; and the worker polls again only out of a
\* finished report or a sleep, every request of the cycle bearing that one job.
C19_SequentialPerWorker ==
  /\ [](\A w \in Workers :
          /\ InOrder(db_log[w])
          /\ (pc[w] \in {"connect", "set_timeout", "fetch", "close", "complete",
                          "complete_err"}
                \/ db_log[w] # <<>> \/ sent[w] # <<>> \/ executed[w] # "not_run")
               => HoldsJob(w)
          /\ pc[w] \in {"connect", "set_timeout", "fetch", "close"} => sent[w] = <<>>
          /\ sent[w] # <<>> =>
               /\ conn[w] = "none"
               /\ executed[w] # "not_run"
               /\ db_log[w] # <<>> => db_log[w][Len(db_log[w])] = "close"
               /\ \A i \in 1 .. Len(sent[w]) : sent[w][i]["job_id"] = job[w].value.id)
  /\ [][\A w \in Workers :
          /\ (pc[w] # "poll" /\ pc'[w] = "poll") =>
               pc[w] \in {"complete", "complete_err", "idle", "backoff"}
          /\ (pc[w] # "poll" /\ job'[w] # job[w]) => pc'[w] = "poll"]_vars

\* A query ran to its end: session acquired, timeout set, query fetched,
\* session closed, and only then the result posted.
C19_Witness ==
  \E w \in Workers :
    /\ pc[w] = "complete"
    /\ db_log[w] = <<"acquire", <<"SET statement_timeout", 30000>>, "fetch", "close">>
    /\ Len(sent[w]) = 1
    /\ "results" \in DOMAIN sent[w][1]
    /\ conn[w] = "none"

\* The worker's session acquisition ran into CONNECTION_TIMEOUT and the job-level
\* handler has posted its completion request.
AcquisitionTimedOut(w) ==
  /\ pc[w] = "complete_err"
  /\ caught[w] = Exc("TimeoutError", "", "execute_query")
  /\ db_log[w] = <<>>

\* C20: a session acquisition that times out is abandoned with no session held
\* and the job is reported as failed, its completion request carrying the
\* error; and every worker that waits for a session for its job polls again.
C20_StalledAcquisitionReported ==
  /\ [](\A w \in Workers :
          AcquisitionTimedOut(w) =>
            /\ conn[w] = "none"
            /\ Len(sent[w]) = 1
            /\ "error" \in DOMAIN sent[w][1]
            /\ "results" \notin DOMAIN sent[w][1])
  /\ \A w \in Workers : (HoldsJob(w) /\ pc[w] = "connect") ~> (pc[w] = "poll")

====
